---- MODULE Spec2Model ----
(***************************************************************************)
(* Model of camtest (src/main.cpp): command-line parsing, start-up         *)
(* validation, the capture session and the frame-rate benchmark loop.      *)
(*                                                                         *)
(* A command-line token (a C string) is a tuple of one-character strings,  *)
(* so that parsing is computed character by character as the code does.    *)
(* argv is the tuple of the arguments after the program name: argv[i] of   *)
(* the model is argv[i] of the program and argc = Len(argv) + 1.           *)
(***************************************************************************)
EXTENDS Integers, Sequences, FiniteSets, TLC

\* ------------------------------------------------------------------ bounds
\* longest argument list of the start-up specification
MaxArgs == 3
\* clock ticks per second (resolution of the modelled steady clock)
TicksPerSec == 2
\* longest time, in ticks, one blocking read may take
MaxDt == 5
\* number of reads that may return without the clock having advanced
MaxBurst == 2

\* ------------------------------------------------------- program constants
test_duration_sec == 5
report_interval_sec == 1
default_width == 640
default_height == 480
default_fps == 30
fourcc_length == 4
dev_prefix_length == 10

\* ------------------------------------------------------------------ tokens
T_d == <<"-", "d">>
T_device == <<"-", "-", "d", "e", "v", "i", "c", "e">>
T_w == <<"-", "w">>
T_width == <<"-", "-", "w", "i", "d", "t", "h">>
T_h == <<"-", "h">>
T_height == <<"-", "-", "h", "e", "i", "g", "h", "t">>
T_f == <<"-", "f">>
T_format == <<"-", "-", "f", "o", "r", "m", "a", "t">>
T_r == <<"-", "r">>
T_resolution == <<"-", "-", "r", "e", "s", "o", "l", "u", "t", "i", "o", "n">>
T_s == <<"-", "s">>
T_fps == <<"-", "-", "f", "p", "s">>
T_help == <<"-", "-", "h", "e", "l", "p">>

OptionTokens ==
    {T_d, T_device, T_w, T_width, T_h, T_height, T_f, T_format,
     T_r, T_resolution, T_s, T_fps, T_help}

V_2 == <<"2">>
V_17 == <<"1", "7">>
V_res == <<"3", "x", "2", "@", "9">>
V_res_sep == <<"3", "y", "2", "@", "9">>
V_res_short == <<"3", "x", "2">>
V_MJPG == <<"M", "J", "P", "G">>
V_YUV == <<"Y", "U", "V">>
V_dev3 == <<"/", "d", "e", "v", "/", "v", "i", "d", "e", "o", "3">>

ValueTokens == {V_2, V_17, V_res, V_res_sep, V_res_short, V_MJPG, V_YUV, V_dev3}

Tokens == OptionTokens \cup ValueTokens

\* ------------------------------------------------------- character helpers
Digits == {"0", "1", "2", "3", "4", "5", "6", "7", "8", "9"}

DigitVal(c) ==
    CASE c = "0" -> 0 [] c = "1" -> 1 [] c = "2" -> 2 [] c = "3" -> 3
      [] c = "4" -> 4 [] c = "5" -> 5 [] c = "6" -> 6 [] c = "7" -> 7
      [] c = "8" -> 8 [] c = "9" -> 9

IsSpace(c) == c \in {" ", "\t", "\n"}

\* ASCII code of the characters the model's tokens are made of
Ord(c) ==
    CASE c \in Digits -> 48 + DigitVal(c)
      [] c = "-" -> 45 [] c = "/" -> 47 [] c = "@" -> 64
      [] c = "G" -> 71 [] c = "J" -> 74 [] c = "M" -> 77 [] c = "P" -> 80
      [] c = "U" -> 85 [] c = "V" -> 86 [] c = "Y" -> 89
      [] c = "a" -> 97 [] c = "c" -> 99 [] c = "d" -> 100 [] c = "e" -> 101
      [] c = "f" -> 102 [] c = "g" -> 103 [] c = "h" -> 104 [] c = "i" -> 105
      [] c = "l" -> 108 [] c = "m" -> 109 [] c = "n" -> 110 [] c = "o" -> 111
      [] c = "p" -> 112 [] c = "r" -> 114 [] c = "s" -> 115 [] c = "t" -> 116
      [] c = "u" -> 117 [] c = "v" -> 118 [] c = "w" -> 119 [] c = "x" -> 120
      [] c = "y" -> 121

\* first position >= p of s that does not hold white space (Len(s)+1 if none)
RECURSIVE SkipSpace(_, _)
SkipSpace(s, p) ==
    IF p <= Len(s) /\ IsSpace(s[p]) THEN SkipSpace(s, p + 1) ELSE p

\* value and end of the run of decimal digits of s that starts at p
RECURSIVE ReadDigits(_, _, _)
ReadDigits(s, p, acc) ==
    IF p <= Len(s) /\ s[p] \in Digits
    THEN ReadDigits(s, p + 1, 10 * acc + DigitVal(s[p]))
    ELSE [val |-> acc, pos |-> p]

\* formatted extraction of a decimal int at position p: skip white space, an
\* optional sign, then at least one digit; pos is the first unread position
ReadInt(s, p) ==
    LET q == SkipSpace(s, p)
        signed == q <= Len(s) /\ s[q] \in {"-", "+"}
        neg == q <= Len(s) /\ s[q] = "-"
        d == IF signed THEN q + 1 ELSE q
        r == ReadDigits(s, d, 0)
    IN IF r.pos = d
       THEN [ok |-> FALSE, val |-> 0, pos |-> d]
       ELSE [ok |-> TRUE, val |-> IF neg THEN 0 - r.val ELSE r.val, pos |-> r.pos]

\* formatted extraction of one char at position p: skip white space, one char
ReadChar(s, p) ==
    LET q == SkipSpace(s, p)
    IN IF q <= Len(s)
       THEN [ok |-> TRUE, val |-> s[q], pos |-> q + 1]
       ELSE [ok |-> FALSE, val |-> "", pos |-> q]

\* std::stoi: the leading decimal int of s; ok = FALSE models the
\* std::invalid_argument it throws when s does not start with one
Stoi(s) == ReadInt(s, 1)

\* s.rfind(prefix, 0) == 0, that is, s starts with prefix
StartsWith(s, prefix) ==
    /\ Len(s) >= Len(prefix)
    /\ \A k \in 1..Len(prefix) : s[k] = prefix[k]

\* s.substr(n): what follows the first n characters
Substr(s, n) == SubSeq(s, n + 1, Len(s))

DevPrefix == <<"/", "d", "e", "v", "/", "v", "i", "d", "e", "o">>

\* --------------------------------------------------------- pure functions
\* fourccFromString with the length test weakened to "not empty"
fourccFromString_NonEmpty(format) ==
    IF Len(format) = 0 THEN 0 ELSE Ord(format[1])

\* fourccFromString: 0 unless the tag has 4 characters, else the packed code
fourccFromString(format) ==
    IF Len(format) # fourcc_length THEN 0
    ELSE Ord(format[1]) + Ord(format[2]) * 256
           + Ord(format[3]) * 65536 + Ord(format[4]) * 16777216

\* parseResolution(res, width, height, fps): ss >> width >> x >> height >> at
\* >> fps, then the test of the two separators. An extraction is attempted only
\* while the stream is good; a failed int extraction stores 0, later targets
\* keep the values passed in; what follows fps in the string is not looked at.
parseResolution(res, width0, height0, fps0) ==
    LET w == ReadInt(res, 1)
        x == IF w.ok THEN ReadChar(res, w.pos) ELSE [ok |-> FALSE, val |-> "", pos |-> w.pos]
        h == IF x.ok THEN ReadInt(res, x.pos) ELSE [ok |-> FALSE, val |-> height0, pos |-> x.pos]
        at == IF h.ok THEN ReadChar(res, h.pos) ELSE [ok |-> FALSE, val |-> "", pos |-> h.pos]
        f == IF at.ok THEN ReadInt(res, at.pos) ELSE [ok |-> FALSE, val |-> fps0, pos |-> at.pos]
    IN [ok |-> f.ok /\ x.val = "x" /\ at.val = "@",
        width |-> w.val, height |-> h.val, fps |-> f.val]

\* the help test with the short form left to the height branch
IsHelpKey_LongOnly(key) == key = T_help

\* the help test at the head of parseArgs' loop body
IsHelpKey(key) == key = T_h \/ key = T_help

\* the name under which parseArgs stores the value of a value-taking option;
\* "" for a token that is no option (parseArgs skips it)
OptionName(key) ==
    IF key = T_d \/ key = T_device THEN "device"
    ELSE IF key = T_w \/ key = T_width THEN "width"
    ELSE IF key = T_h \/ key = T_height THEN "height"
    ELSE IF key = T_f \/ key = T_format THEN "format"
    ELSE IF key = T_r \/ key = T_resolution THEN "resolution"
    ELSE IF key = T_s \/ key = T_fps THEN "fps"
    ELSE ""

\* parseArgs from index i on, with the help branch setting the flag but not
\* returning
RECURSIVE parseArgsFrom_NoReturn(_, _, _)
parseArgsFrom_NoReturn(av, i, m) ==
    IF i > Len(av) THEN [args |-> m, null |-> FALSE]
    ELSE IF av[i] = T_h \/ av[i] = T_help
         THEN parseArgsFrom_NoReturn(av, i + 1, ("help" :> <<"1">>) @@ m)
    ELSE IF OptionName(av[i]) = "" THEN parseArgsFrom_NoReturn(av, i + 1, m)
    ELSE IF i + 1 > Len(av) THEN [args |-> m, null |-> TRUE]
    ELSE parseArgsFrom_NoReturn(av, i + 2, (OptionName(av[i]) :> av[i + 1]) @@ m)

\* parseArgs from index i on. null = TRUE: a value-taking option was the last
\* token, so argv[argc], a null pointer, was assigned to a std::string
\* (undefined behaviour); the map is then the one built up to that point.
RECURSIVE parseArgsFrom(_, _, _)
parseArgsFrom(av, i, m) ==
    IF i > Len(av) THEN [args |-> m, null |-> FALSE]
    ELSE IF IsHelpKey(av[i]) THEN [args |-> ("help" :> <<"1">>) @@ m, null |-> FALSE]
    ELSE IF OptionName(av[i]) = "" THEN parseArgsFrom(av, i + 1, m)
    ELSE IF i + 1 > Len(av) THEN [args |-> m, null |-> TRUE]
    ELSE parseArgsFrom(av, i + 2, (OptionName(av[i]) :> av[i + 1]) @@ m)

parseArgs(av) == parseArgsFrom(av, 1, <<>>)

Has(m, k) == k \in DOMAIN m

\* ------------------------------------------------------------------ state
VARIABLES
    pc,                  \* position of main
    argv,                \* the command line
    args,                \* the map parseArgs returned
    device,              \* main's locals
    width, height, fps, format, fourcc,
    cap,                 \* the cv::VideoCapture: opened, and the properties set
    total_frames, frames_last_second, start_time, last_report,
    clock,               \* std::chrono::steady_clock, in ticks
    steady,              \* the capture source delivers at a steady rate
    out,                 \* the lines written to stdout and stderr, in order
    status, exit_code,   \* how the process ended, and main's return value
    loop,                \* state of the benchmark loop
    reads_ok,            \* history: number of reads that returned a frame
    reports,             \* history: number of per-interval reports
    opens                \* history: number of times the device was opened

vars == <<pc, argv, args, device, width, height, fps, format, fourcc, cap,
          total_frames, frames_last_second, start_time, last_report, clock,
          steady, out, status, exit_code, loop, reads_ok, reports, opens>>

locals == <<device, width, height, fps, format, fourcc>>
inputs == <<argv, steady>>
counters == <<total_frames, frames_last_second, start_time, last_report>>
history == <<reads_ok, reports, opens>>

\* outcomes of the undefined behaviour of parseArgs (std::string assigned from
\* the null pointer argv[argc]): the process dies in strlen, or the library
\* detects the null pointer and throws std::logic_error, which nothing catches
UBOutcomes == {"segv", "terminate"}

\* argument lists of at most n tokens
ArgvUpTo(n) == UNION {[1..k -> Tokens] : k \in 0..n}

\* the command lines of the full-run specification
RunArgv ==
    {<<>>, <<T_help>>, <<T_h, V_2>>, <<T_w, V_17>>, <<T_d, V_dev3>>,
     <<T_r, V_res>>, <<T_r, V_res_sep>>, <<T_resolution, V_res_short>>,
     <<T_f, V_YUV>>, <<T_format, V_MJPG>>, <<T_d, V_YUV>>, <<T_s>>}

InitWith(avs, clocks, sources) ==
    /\ argv \in avs
    /\ pc = "parse"
    /\ args = <<>>
    /\ device = 0 /\ width = 0 /\ height = 0 /\ fps = 0
    /\ format = <<>> /\ fourcc = 0
    /\ cap = [opened |-> FALSE, width |-> 0, height |-> 0, fourcc |-> 0, fps |-> 0]
    /\ total_frames = 0 /\ frames_last_second = 0
    /\ start_time = 0 /\ last_report = 0
    /\ clock \in clocks
    /\ steady \in sources
    /\ out = <<>>
    /\ status = "running" /\ exit_code = 0
    /\ loop = "NONE"
    /\ reads_ok = 0 /\ reports = 0 /\ opens = 0

Init == InitWith(RunArgv, 0..TicksPerSec, BOOLEAN)
ArgsInit == InitWith(ArgvUpTo(MaxArgs), {0}, {FALSE})

\* return n from main
Return(n) == pc' = "exit" /\ status' = "returned" /\ exit_code' = n

\* the process dies without main returning
Die(how) == pc' = "exit" /\ status' = how /\ exit_code' = exit_code

\* ------------------------------------------------------------ main, start-up
\* auto args = parseArgs(argc, argv);
MainParse ==
    /\ pc = "parse"
    /\ LET r == parseArgs(argv)
       IN IF r.null
          THEN /\ \E how \in UBOutcomes : Die(how)
               /\ args' = args
          ELSE /\ args' = r.args
               /\ pc' = "help"
               /\ UNCHANGED <<status, exit_code>>
    /\ UNCHANGED <<inputs, locals, cap, counters, clock, out, loop, history>>

\* if (args.count("help")) { printHelp(argv[0]); return 0; }
MainHelp ==
    /\ pc = "help"
    /\ IF Has(args, "help")
       THEN /\ out' = Append(out, <<"usage">>)
            /\ Return(0)
       ELSE /\ pc' = "device"
            /\ UNCHANGED <<out, status, exit_code>>
    /\ UNCHANGED <<inputs, args, locals, cap, counters, clock, loop, history>>

\* the device string: a bare integer or /dev/video<N>; std::stoi throws when
\* there is no integer to read, and nothing catches it
MainDevice ==
    /\ pc = "device"
    /\ LET device_str == IF Has(args, "device") THEN args["device"] ELSE <<"0">>
           r == IF StartsWith(device_str, DevPrefix)
                THEN Stoi(Substr(device_str, dev_prefix_length))
                ELSE Stoi(device_str)
       IN IF r.ok
          THEN /\ device' = r.val
               /\ pc' = "resolution"
               /\ UNCHANGED <<status, exit_code>>
          ELSE /\ Die("terminate")
               /\ device' = device
    /\ UNCHANGED <<inputs, args, width, height, fps, format, fourcc, cap,
                   counters, clock, out, loop, history>>

\* the values main gives width, height and fps before -r is looked at
InitialWidth(m) == default_width
InitialHeight(m) == default_height
InitialFps(m) == default_fps

\* what main's width, height and fps hold after the -r shorthand was looked
\* at: the decoder's results when -r was given, the initial values otherwise
Decoded(m) ==
    IF Has(m, "resolution")
    THEN parseResolution(m["resolution"], InitialWidth(m), InitialHeight(m),
                         InitialFps(m))
    ELSE [ok |-> TRUE, width |-> InitialWidth(m), height |-> InitialHeight(m),
          fps |-> InitialFps(m)]

\* int width = 640, height = 480, fps = 30; format; the -r shorthand
MainResolution ==
    /\ pc = "resolution"
    /\ format' = IF Has(args, "format") THEN args["format"] ELSE V_MJPG
    /\ width' = Decoded(args).width
    /\ height' = Decoded(args).height
    /\ fps' = Decoded(args).fps
    /\ IF Decoded(args).ok
       THEN /\ pc' = "format"
            /\ UNCHANGED <<out, status, exit_code>>
       ELSE /\ out' = Append(out, <<"err_resolution">>)
            /\ Return(1)
    /\ UNCHANGED <<inputs, args, device, fourcc, cap, counters, clock, loop, history>>

\* int fourcc = fourccFromString(format); if (fourcc == 0) ... return 1;
MainFormat ==
    /\ pc = "format"
    /\ fourcc' = fourccFromString(format)
    /\ IF fourcc' = 0
       THEN /\ out' = Append(out, <<"err_format", format>>)
            /\ Return(1)
       ELSE /\ pc' = "open"
            /\ UNCHANGED <<out, status, exit_code>>
    /\ UNCHANGED <<inputs, args, device, width, height, fps, format, cap,
                   counters, clock, loop, history>>

\* cv::VideoCapture cap(device, cv::CAP_V4L2); if (!cap.isOpened()) ... return 1;
MainOpen(ok) ==
    /\ pc = "open"
    /\ opens' = opens + 1
    /\ cap' = [cap EXCEPT !.opened = ok]
    /\ IF ok
       THEN /\ pc' = "configure"
            /\ UNCHANGED <<out, status, exit_code>>
       ELSE /\ out' = Append(out, <<"err_open", device>>)
            /\ Return(1)
    /\ UNCHANGED <<inputs, args, locals, counters, clock, loop, reads_ok, reports>>

\* the four cap.set calls, the "Testing camera" line and the loop's counters
MainConfigure ==
    /\ pc = "configure"
    /\ cap' = [opened |-> cap.opened, width |-> width, height |-> height,
               fourcc |-> fourcc, fps |-> fps]
    /\ out' = Append(out, <<"testing", width, height, fps, format>>)
    /\ total_frames' = 0 /\ frames_last_second' = 0
    /\ start_time' = clock /\ last_report' = clock
    /\ loop' = "RUNNING"
    /\ pc' = "loop"
    /\ UNCHANGED <<inputs, args, locals, clock, status, exit_code, history>>

\* --------------------------------------------------------- benchmark loop
\* whole seconds rounded up instead of truncated
WholeSeconds_Ceil(from, to) == (to - from + TicksPerSec - 1) \div TicksPerSec

\* duration_cast<seconds>(to - from).count(): whole seconds, truncated
WholeSeconds(from, to) == (to - from) \div TicksPerSec

\* the report test passing at every frame
ReportDue_Always(elapsed_since_report) == elapsed_since_report >= 0

\* if (elapsed_since_report >= 1)
ReportDue(elapsed_since_report) == elapsed_since_report >= report_interval_sec

\* if (total_elapsed >= test_duration_sec)
DurationElapsed(total_elapsed) == total_elapsed >= test_duration_sec

\* the average taken over the nominal duration instead of the elapsed time
avg_fps_Nominal(total, total_elapsed) == [num |-> total, den |-> test_duration_sec]

\* avg_fps = total_frames / (double)total_elapsed, kept as an exact fraction
avg_fps(total, total_elapsed) == [num |-> total, den |-> total_elapsed]

\* the rest of an iteration once the frame is counted: read the clock, report
\* and reset when a second has passed since the last report, print the summary
\* and break when the test duration has passed
Iteration(now, total, counted) ==
    LET total_elapsed == WholeSeconds(start_time, now)
        elapsed_since_report == WholeSeconds(last_report, now)
        report == ReportDue(elapsed_since_report)
        done == DurationElapsed(total_elapsed)
        fpsLine == IF report THEN <<(<<"fps", counted>>)>> ELSE <<>>
        sumLine == IF done
                   THEN <<(<<"summary", total, total_elapsed,
                             avg_fps(total, total_elapsed)>>)>>
                   ELSE <<>>
    IN /\ clock' = now
       /\ total_frames' = total
       /\ frames_last_second' = IF report THEN 0 ELSE counted
       /\ last_report' = IF report THEN now ELSE last_report
       /\ reports' = IF report THEN reports + 1 ELSE reports
       /\ out' = out \o fpsLine \o sumLine
       /\ loop' = IF done THEN "DONE" ELSE loop
       /\ pc' = IF done THEN "release" ELSE pc

\* an iteration that counts the frame in the total but not in the interval
ReadOk_NoIntervalCount(dt) ==
    /\ pc = "loop"
    /\ ~steady
    /\ dt = 0 => total_frames < MaxBurst
    /\ reads_ok' = reads_ok + 1
    /\ Iteration(clock + dt, total_frames + 1, frames_last_second)
    /\ UNCHANGED <<inputs, args, locals, cap, start_time, status, exit_code, opens>>

\* one iteration whose cap.read(frame) returns a frame, dt ticks after the
\* previous reading of the clock: total_frames++, frames_last_second++, ...
ReadOk(dt) ==
    /\ pc = "loop"
    /\ ~steady
    /\ dt = 0 => total_frames < MaxBurst
    /\ reads_ok' = reads_ok + 1
    /\ Iteration(clock + dt, total_frames + 1, frames_last_second + 1)
    /\ UNCHANGED <<inputs, args, locals, cap, start_time, status, exit_code, opens>>

\* the steady source: steady_rate frames a second, the k-th of them delivered
\* k / steady_rate seconds after the session started, steady_frames in all
steady_rate == default_fps
steady_frames == default_fps * test_duration_sec
SteadyExhausted == reads_ok >= steady_frames

\* one iteration whose cap.read(frame) returns the next frame of the steady
\* source
SteadyRead ==
    /\ pc = "loop"
    /\ steady /\ ~SteadyExhausted
    /\ reads_ok' = reads_ok + 1
    /\ Iteration(start_time + ((reads_ok + 1) * TicksPerSec) \div steady_rate,
                 total_frames + 1, frames_last_second + 1)
    /\ UNCHANGED <<inputs, args, locals, cap, start_time, status, exit_code, opens>>

\* a failed read that is counted before the loop is left
ReadFail_Counted ==
    /\ pc = "loop"
    /\ steady => SteadyExhausted
    /\ out' = Append(out, <<"err_frame">>)
    /\ loop' = "FAILED"
    /\ pc' = "release"
    /\ total_frames' = total_frames + 1
    /\ frames_last_second' = frames_last_second + 1
    /\ UNCHANGED <<inputs, args, locals, cap, start_time, last_report, clock,
                   status, exit_code, history>>

\* one iteration whose cap.read(frame) fails: the error line, then break
ReadFail ==
    /\ pc = "loop"
    /\ steady => SteadyExhausted
    /\ out' = Append(out, <<"err_frame">>)
    /\ loop' = "FAILED"
    /\ pc' = "release"
    /\ UNCHANGED <<inputs, args, locals, cap, counters, clock, status, exit_code,
                   history>>

\* cap.release(); return 0;
MainRelease ==
    /\ pc = "release"
    /\ cap' = [cap EXCEPT !.opened = FALSE]
    /\ Return(0)
    /\ UNCHANGED <<inputs, args, locals, counters, clock, out, loop, history>>

\* ---------------------------------------------------------- specifications
Startup ==
    \/ MainParse
    \/ MainHelp
    \/ MainDevice
    \/ MainResolution
    \/ MainFormat
    \/ \E ok \in BOOLEAN : MainOpen(ok)
    \/ MainConfigure

Benchmark ==
    \/ \E dt \in 0..MaxDt : ReadOk(dt)
    \/ SteadyRead
    \/ ReadFail
    \/ MainRelease

Next == Startup \/ Benchmark

\* a whole run of main, over the command lines of RunArgv, with a source of
\* any timing or with the steady source
Spec == Init /\ [][Next]_vars

\* start-up only (up to the configured capture session), over every argument
\* list of at most MaxArgs tokens
ArgsSpec == ArgsInit /\ [][Startup]_vars

\* a whole run in which, once the device is open, main keeps running: the
\* session is configured, every blocking read returns (with a frame or with
\* failure) and the release is reached
FairSpec ==
    Init /\ [][Next]_vars /\ WF_vars(MainConfigure) /\ WF_vars(Benchmark)

\* ================================================================= claims
\* vocabulary of the properties, defined on the observable state only
HasLine(kind) == \E k \in 1..Len(out) : out[k][1] = kind
CountLines(kind) == Cardinality({k \in 1..Len(out) : out[k][1] = kind})
LastLine == out[Len(out)]

\* whole seconds on the clock since the session started
ElapsedSec == (clock - start_time) \div TicksPerSec

\* sum of the per-interval counts printed so far
RECURSIVE SumFps(_)
SumFps(lines) ==
    IF lines = <<>> THEN 0
    ELSE (IF Head(lines)[1] = "fps" THEN Head(lines)[2] ELSE 0) + SumFps(Tail(lines))

\* s is a decimal number
IsNumber(s) == Len(s) >= 1 /\ \A k \in 1..Len(s) : s[k] \in Digits

\* the integer an option was given, dflt when the option is absent
Given(name, dflt) == IF Has(args, name) THEN Stoi(args[name]).val ELSE dflt

\* every value given for width, height or fps is a number
GivenNumbers ==
    \A name \in {"width", "height", "fps"} : Has(args, name) => IsNumber(args[name])

NoHelpNoResolution ==
    \A k \in 1..Len(argv) : argv[k] \notin {T_h, T_help, T_r, T_resolution}

\* the tokens that take a value whatever -h means
TakesValue == {T_d, T_device, T_w, T_width, T_height, T_f, T_format,
               T_r, T_resolution, T_s, T_fps}

\* index of the first -h the parser meets in option position, 0 when the
\* parser stops (end of the list, --help) before it meets one
RECURSIVE FirstShortH(_, _)
FirstShortH(av, i) ==
    IF i > Len(av) THEN 0
    ELSE IF av[i] = T_h THEN i
    ELSE IF av[i] = T_help THEN 0
    ELSE IF av[i] \in TakesValue THEN FirstShortH(av, i + 2)
    ELSE FirstShortH(av, i + 1)

\* the -r value of the run is malformed, or its format tag has not 4 characters
WellFormedResolution(v) ==
    \E i, j \in 1..Len(v) :
        /\ i < j /\ v[i] = "x" /\ v[j] = "@"
        /\ IsNumber(SubSeq(v, 1, i - 1))
        /\ IsNumber(SubSeq(v, i + 1, j - 1))
        /\ j < Len(v) /\ v[j + 1] \in Digits
MalformedResolution ==
    Has(args, "resolution") /\ ~WellFormedResolution(args["resolution"])
BadFormatTag == Has(args, "format") /\ Len(args["format"]) # 4
MalformedInput == MalformedResolution \/ BadFormatTag

\* C1: with no help token and no -r option, the width, height and fps applied
\* to the capture session are those given with -w, --height and -s, and 640,
\* 480 and 30 for the options that are absent.
C1_AppliedAsGiven ==
    (pc = "loop" /\ NoHelpNoResolution /\ GivenNumbers) =>
        /\ cap.width = Given("width", 640)
        /\ cap.height = Given("height", 480)
        /\ cap.fps = Given("fps", 30)

\* C2: main returns 1 when the resolution or the format is invalid or the
\* device fails to open, and returns 0 only when help was shown or the
\* benchmark reached its summary.
C2_ExitCodes ==
    status = "returned" =>
        /\ exit_code \in {0, 1}
        /\ (HasLine("err_resolution") \/ HasLine("err_format") \/ HasLine("err_open"))
               => exit_code = 1
        /\ exit_code = 0 => (HasLine("usage") \/ HasLine("summary"))

C4_HelpFirst ==
    (Len(argv) >= 1 /\ argv[1] = T_help) =>
        /\ opens = 0 /\ ~cap.opened
        /\ pc \in {"parse", "help", "exit"}
        /\ pc = "help" => args = ("help" :> <<"1">>)
        /\ pc = "exit" =>
            /\ status = "returned" /\ exit_code = 0
            /\ out = <<(<<"usage">>)>>

C4_Witness ==
    /\ Len(argv) = 3 /\ argv[1] = T_help
    /\ argv[2] = T_f /\ argv[3] = T_r
    /\ pc = "exit" /\ exit_code = 0 /\ HasLine("usage")

Summaries == {k \in 1..Len(out) : out[k][1] = "summary"}

\* C6: a failed read ends the loop in that iteration with both counters as
\* they were, and prints nothing but the error: no per-interval report and no
\* summary, then or later; the counts of the earlier iterations are kept.
C6_FailedReadStep ==
    (loop = "RUNNING" /\ loop' = "FAILED") =>
        /\ total_frames' = total_frames
        /\ frames_last_second' = frames_last_second
        /\ reads_ok' = reads_ok /\ reports' = reports
        /\ out' = Append(out, <<"err_frame">>)
        /\ pc' # "loop"
C6_AfterFailure ==
    loop = "FAILED" =>
        /\ total_frames' = total_frames
        /\ frames_last_second' = frames_last_second
        /\ out' = out
        /\ CountLines("summary") = 0
        /\ CountLines("fps") = reports
        /\ total_frames = reads_ok
        /\ loop' = "FAILED"
\* C6: every step satisfies the two conditions above: a failed read leaves
\* the loop at once, is not counted, and prints neither report nor summary.
C6_FailedReadNotCounted == [][C6_FailedReadStep /\ C6_AfterFailure]_vars

C6_Witness ==
    /\ loop = "FAILED" /\ pc = "exit"
    /\ total_frames = 3 /\ frames_last_second = 1 /\ reports = 1

\* C7: the summary is printed at most once, only at a successful read at
\* which 5 whole seconds or more have passed since the start; its total is the
\* number of successful reads, its average that total over the whole seconds
\* elapsed; the loop is then DONE and reads no more. With the source that
\* yields 150 frames over 5 seconds at a steady rate the summary reports a
\* total of 150 and an average of 30.
C7_Summary ==
    /\ Cardinality(Summaries) <= 1
    /\ loop = "DONE" <=> Summaries # {}
    /\ Summaries # {} =>
        /\ LastLine[1] = "summary"
        /\ LastLine[2] = reads_ok /\ reads_ok >= 1
        /\ LastLine[3] = ElapsedSec /\ ElapsedSec >= 5
        /\ LastLine[4].num * ElapsedSec = reads_ok * LastLine[4].den
        /\ LastLine[4].den # 0
        /\ pc \in {"release", "exit"}
        /\ steady => /\ LastLine[2] = 150
                     /\ LastLine[4].num = 30 * LastLine[4].den
C7_SummaryStep ==
    CountLines("summary")' # CountLines("summary") => reads_ok' = reads_ok + 1
\* C7: the summary is printed at most once, at a successful read at 5 whole
\* seconds or more, with total = successful reads and average = total over
\* elapsed whole seconds (150 and 30 for the steady source); then no more reads.
C7_SummaryOnce == []C7_Summary /\ [][C7_SummaryStep]_vars

C7_Witness ==
    /\ pc = "exit" /\ loop = "DONE" /\ ~steady
    /\ ElapsedSec = 6 /\ reads_ok = 4
    /\ LastLine = <<"summary", 4, 6, [num |-> 4, den |-> 6]>>

\* C8 as stated: at every successful read the number of per-interval resets
\* made so far equals the number of whole seconds elapsed since the start.
C8_OneResetPerSecond ==
    (loop \in {"RUNNING", "DONE"} /\ reads_ok >= 1) => reports = ElapsedSec

\* C8 amended: the per-interval counter is reset at most once per elapsed
\* second. After every successful read the number of resets made so far is at
\* most the number of whole seconds elapsed, less than one whole second has
\* passed since the last reset (or the start), and the counter is zero when
\* that read reset it; a read resets at most once, however long it blocked.
C8_State ==
    loop \in {"RUNNING", "DONE"} =>
        /\ reports <= ElapsedSec
        /\ reports = CountLines("fps")
        /\ (clock - last_report) \div TicksPerSec = 0
        /\ start_time <= last_report /\ last_report <= clock
        /\ reports = 0 <=> last_report = start_time
C8_Step ==
    /\ reports' \in {reports, reports + 1}
    /\ reports' = reports + 1 <=>
          (reads_ok' = reads_ok + 1 /\ (clock' - last_report) \div TicksPerSec >= 1)
    /\ reports' = reports + 1 => (frames_last_second' = 0 /\ last_report' = clock')
\* C8 amended: resets so far never exceed the whole seconds elapsed, and a read
\* resets exactly when a whole second has passed since the last reset.
C8_AtMostOneResetPerSecond == []C8_State /\ [][C8_Step]_vars

C8_Witness ==
    /\ loop = "RUNNING" /\ reads_ok = 1
    /\ ElapsedSec = 2 /\ reports = 1

\* C10: in the loop, the running total is the number of successful reads and
\* is the sum of the per-interval counts printed plus the per-interval
\* counter; the total never decreases and the per-interval counter never
\* exceeds it.
C10_State ==
    loop # "NONE" =>
        /\ total_frames = reads_ok
        /\ total_frames = SumFps(out) + frames_last_second
        /\ frames_last_second >= 0
        /\ frames_last_second <= total_frames
C10_Step == total_frames' >= total_frames
\* C10: total = successful reads = printed per-interval counts + per-interval
\* counter, the total never decreases, the per-interval counter never exceeds it.
C10_Totals == []C10_State /\ [][C10_Step]_vars

C10_Witness ==
    /\ loop = "RUNNING" /\ total_frames = 4
    /\ reports = 2 /\ SumFps(out) = 3 /\ frames_last_second = 1

\* C9: once the device is open, when every read returns and the clock
\* advances, the loop reaches DONE or FAILED and the device is released; the
\* loop leaves RUNNING before 5 whole seconds have elapsed only by a failed
\* read.
C9_Ended == loop \in {"DONE", "FAILED"} /\ ~cap.opened /\ pc = "exit"
C9_EarlyOnlyByFailure ==
    (loop \in {"DONE", "FAILED"} /\ ElapsedSec < 5) => (loop = "FAILED" /\ HasLine("err_frame"))
\* C9: an open device leads to a loop that is DONE or FAILED with the device
\* released, and the loop ends before 5 whole seconds only by a failed read.
C9_Terminates == (cap.opened ~> C9_Ended) /\ []C9_EarlyOnlyByFailure

C9_Witness ==
    /\ C9_Ended /\ loop = "DONE" /\ ElapsedSec = 7 /\ reads_ok = 3

====
